---- MODULE Spec2Model ----
(***************************************************************************)
(* Model of the PII sanitization service of Backend/main.py: the BIO       *)
(* entity grouper (group_entities) and the span resolution, collection,    *)
(* sort and rewrite passes of the /sanitize handler (sanitize_text).       *)
(*                                                                         *)
(* Conventions.                                                            *)
(*  - Python strings are sequences of one-character strings; a mask such   *)
(*    as "[SSN]" is the sequence of its characters.                        *)
(*  - Indices and character offsets keep Python's 0-based values; At reads *)
(*    a 0-based index of a TLA+ sequence.                                  *)
(*  - A label string "B-X" / "I-X" is the record [prefix, type]; every     *)
(*    other label string (such as "O") has prefix "O".                     *)
(*  - None is the empty sequence for current_entity and the value None     *)
(*    (-1) for a word id.                                                  *)
(*  - The tokenizer and the model are external: their outputs are chosen   *)
(*    nondeterministically from bounded sets by the Infer actions.         *)
(***************************************************************************)
EXTENDS Integers, Sequences, FiniteSets, TLC

\* ------------------------------------------------------------------ bounds
MaxTokens == 3
MaxTextLen == 3
MaxRawTokens == 2
MaxRawTextLen == 2
MaxLabelTokens == 2
MaxLabelTextLen == 2
MaxSvcTokens == 1
MaxSvcTextLen == 1

\* --------------------------------------------------------- basic helpers
None == -1

Min(a, b) == IF a <= b THEN a ELSE b

\* seq[idx] for a 0-based index
At(seq, idx) == seq[idx + 1]

\* a subscript read seq[idx] raises IndexError unless idx is in range
ReadOK(seq, idx) == idx >= 0 /\ idx < Len(seq)

\* Python slice s[a:b] for non-negative a, b (bounds are clamped)
Slice(s, a, b) == SubSeq(s, Min(a, Len(s)) + 1, Min(b, Len(s)))

\* Python slice s[a:]
SliceFrom(s, a) == SubSeq(s, Min(a, Len(s)) + 1, Len(s))

Whitespace == {" "}

RECURSIVE LStrip(_)
LStrip(s) == IF s # <<>> /\ Head(s) \in Whitespace THEN LStrip(Tail(s)) ELSE s

RECURSIVE RStrip(_)
RStrip(s) ==
    IF s # <<>> /\ s[Len(s)] \in Whitespace THEN RStrip(SubSeq(s, 1, Len(s) - 1)) ELSE s

\* str.strip()
Strip(s) == RStrip(LStrip(s))

\* ------------------------------------------------------------ label catalog
Catalog ==
    {"ACCOUNT", "DATE", "DEVICE", "EMAIL", "FAX", "HEALTHPLAN", "ID", "IP", "LICENSE",
     "LOCATION", "MRN", "NAME", "PHONE", "SSN", "URL", "VEHICLE"}

\* the characters of a category name
TypeChars(type) ==
    CASE type = "ACCOUNT" -> <<"A", "C", "C", "O", "U", "N", "T">>
      [] type = "DATE" -> <<"D", "A", "T", "E">>
      [] type = "DEVICE" -> <<"D", "E", "V", "I", "C", "E">>
      [] type = "EMAIL" -> <<"E", "M", "A", "I", "L">>
      [] type = "FAX" -> <<"F", "A", "X">>
      [] type = "HEALTHPLAN" -> <<"H", "E", "A", "L", "T", "H", "P", "L", "A", "N">>
      [] type = "ID" -> <<"I", "D">>
      [] type = "IP" -> <<"I", "P">>
      [] type = "LICENSE" -> <<"L", "I", "C", "E", "N", "S", "E">>
      [] type = "LOCATION" -> <<"L", "O", "C", "A", "T", "I", "O", "N">>
      [] type = "MRN" -> <<"M", "R", "N">>
      [] type = "NAME" -> <<"N", "A", "M", "E">>
      [] type = "PHONE" -> <<"P", "H", "O", "N", "E">>
      [] type = "SSN" -> <<"S", "S", "N">>
      [] type = "URL" -> <<"U", "R", "L">>
      [] type = "VEHICLE" -> <<"V", "E", "H", "I", "C", "L", "E">>
      [] type = "ZIP" -> <<"Z", "I", "P">>
      [] OTHER -> <<>>

\* f"[{type}]"
Bracket(type) == <<"[">> \o TypeChars(type) \o <<"]">>

BNAME == <<"[", "B", "N", "A", "M", "E", "]">>

INAME == <<"[", "I", "N", "A", "M", "E", "]">>

\* the keys of LABEL_TO_MASK other than "O"
MaskKeys == {[prefix |-> p, type |-> c] : p \in {"B", "I"}, c \in Catalog}

LABEL_TO_MASK ==
    [k \in MaskKeys |->
        IF k.type = "NAME" THEN (IF k.prefix = "B" THEN BNAME ELSE INAME)
        ELSE Bracket(k.type)]

\* mutant: a lookup whose default is the empty string
MaskLookupCatalogOnly(type) ==
    LET key == [prefix |-> "B", type |-> type]
    IN IF key \in MaskKeys THEN LABEL_TO_MASK[key] ELSE <<>>

\* LABEL_TO_MASK.get(f"B-{type}", f"[{type}]")
MaskLookup(type) ==
    LET key == [prefix |-> "B", type |-> type]
    IN IF key \in MaskKeys THEN LABEL_TO_MASK[key] ELSE Bracket(type)

OLabel == [prefix |-> "O", type |-> ""]

BLabel(c) == [prefix |-> "B", type |-> c]

ILabel(c) == [prefix |-> "I", type |-> c]

\* ------------------------------------------------------------------- state
VARIABLES
    pc,              \* position of the handler
    text,            \* request.message
    tokens,          \* tokens (each token stands for itself: its 0-based position)
    word_ids,        \* encoding.word_ids(batch_index=0)
    offset_mapping,  \* encoding["offset_mapping"][0]
    pred_labels,     \* label ids predicted by the model
    labels,          \* label names after the id2label lookup
    i,               \* loop index of group_entities
    current_entity,  \* <<>> for None, <<entity>> otherwise
    entities,        \* entities list of group_entities
    e,               \* number of entities the collection loop has consumed
    redacted_items,
    replacements,    \* list of [start, end, mask]
    r,               \* number of replacements the rewrite loop has applied
    sanitized_text,
    response         \* the HTTP response of the request ([status |-> 0]: none yet)

vars ==
    <<pc, text, tokens, word_ids, offset_mapping, pred_labels, labels, i, current_entity,
      entities, e, redacted_items, replacements, r, sanitized_text, response>>

\* ------------------------------------------------------ external collaborators
Letters == <<"a", "b", "c", "d", "e", "f", "g", "h">>

\* texts of length n: position p holds its own letter, but for at most one blank
TextsOfLen(n) ==
    {[p \in 1..n |-> IF p = blank THEN " " ELSE Letters[((p - 1) % 8) + 1]] :
        blank \in 0..n}

\* the keys of an id2label table: str(pred_int) and pred_int
StrKey(id) == [kind |-> "str", id |-> id]

IntKey(id) == [kind |-> "int", id |-> id]

\* model.config.id2label of the model in use (a subset of the label set), integer keys
Id2Label ==
    [key \in {IntKey(id) : id \in 0..4} |->
        CASE key.id = 0 -> OLabel
          [] key.id = 1 -> BLabel("NAME")
          [] key.id = 2 -> ILabel("NAME")
          [] key.id = 3 -> BLabel("SSN")
          [] key.id = 4 -> ILabel("SSN")]

PredIds == 0..4

\* an id2label table with string and integer keys, an I- label of a catalog category
\* other than NAME and a category that is not in the catalog; no key for the id 5
Id2LabelMixed ==
    [key \in {IntKey(0), StrKey(1), IntKey(2), StrKey(3), IntKey(4)} |->
        CASE key.id = 0 -> OLabel
          [] key.id = 1 -> BLabel("NAME")
          [] key.id = 2 -> ILabel("NAME")
          [] key.id = 3 -> ILabel("SSN")
          [] key.id = 4 -> BLabel("ZIP")]

MixedPredIds == 0..5

\* mutant: id2label[pred_int] without a fallback: <<>> stands for the KeyError
LookupUnguarded(id2label, pred) ==
    IF IntKey(pred) \in DOMAIN id2label THEN <<id2label[IntKey(pred)]>> ELSE <<>>

\* one iteration of the lookup loop over pred_labels: <<label>> (<<>> would be a raise)
LookupLabel(id2label, pred) ==
    IF StrKey(pred) \in DOMAIN id2label THEN <<id2label[StrKey(pred)]>>
    ELSE IF IntKey(pred) \in DOMAIN id2label THEN <<id2label[IntKey(pred)]>>
    ELSE <<OLabel>>

Special == <<0, 0>>

\* offsets of a real token of a text of length n: a non-empty range of the text
TokenRanges(n) == {<<s, t>> : s \in 0..n, t \in 0..n} \ {p \in (0..n) \X (0..n) : p[1] >= p[2]}

\* offset tables a tokenizer produces for a text of length len and n tokens: a special
\* token has offset (0, 0); the other tokens have non-empty, non-overlapping ranges in
\* increasing order
TokenizerOffsets(len, n) ==
    {offs \in [1..n -> TokenRanges(len) \cup {Special}] :
        \A a \in 1..n : \A b \in 1..n :
            (a < b /\ offs[a] # Special /\ offs[b] # Special) => offs[a][2] <= offs[b][1]}

\* word ids of an offset table: None for a special token, else the word's number
WordIdsOf(offs) ==
    [k \in 1..Len(offs) |->
        IF offs[k] = Special THEN None
        ELSE Cardinality({a \in 1..(k - 1) : offs[a] # Special})]

\* label ids the model predicts in the raw-table runs
RawPredIds == {0, 1, 2}

\* offsets of a raw table: any range, empty or not, up to one past the end of the text
RawRanges(n) == {p \in (0..(n + 1)) \X (0..(n + 1)) : p[1] <= p[2]}

\* ------------------------------------------------------------ group_entities
\* mutant: every label that is not an I- label starts an entity
StartsWithBLoose(label) == label.prefix # "I"

\* label.startswith("B-")
StartsWithB(label) == label.prefix = "B"

\* label.startswith("I-")
StartsWithI(label) == label.prefix = "I"

\* label[2:]
LabelType(label) == label.type

\* mutant: the entity is created without its first token
NewEntityEmpty(type, token, word_id, idx) ==
    [type |-> type, tokens |-> <<>>, word_ids |-> <<>>, start_idx |-> idx]

NewEntity(type, token, word_id, idx) ==
    [type |-> type, tokens |-> <<token>>, word_ids |-> <<word_id>>, start_idx |-> idx]

\* mutant: the closed entity is put in front of the list
EmitInFront(ents, cur) == IF cur # <<>> THEN <<cur[1]>> \o ents ELSE ents

\* close the open entity, if any
Emit(ents, cur) == IF cur # <<>> THEN Append(ents, cur[1]) ELSE ents

\* mutant: an I- label continues the open entity whatever its type
ContinuesAnyType(cur, label) == cur # <<>>

\* mutant: an I- label never continues the open entity
ContinuesNever(cur, label) == FALSE

\* the condition under which an I- label continues the open entity
Continues(cur, label) == cur # <<>> /\ LabelType(label) = cur[1].type

\* mutant: no token is taken for a special token
IsSpecialNever(word_id) == FALSE

\* if word_id is None: continue
IsSpecial(word_id) == word_id = None

\* one iteration of the loop: the new (entities, current_entity)
GroupToken(ents, cur, token, label, word_id, idx) ==
    IF IsSpecial(word_id) THEN [entities |-> ents, current |-> cur]
    ELSE IF StartsWithB(label)
    THEN [entities |-> Emit(ents, cur),
          current |-> <<NewEntity(LabelType(label), token, word_id, idx)>>]
    ELSE IF StartsWithI(label)
    THEN IF Continues(cur, label)
         THEN [entities |-> ents,
               current |->
                   <<[cur[1] EXCEPT !.tokens = Append(@, token),
                                    !.word_ids = Append(@, word_id)]>>]
         ELSE [entities |-> Emit(ents, cur),
               current |-> <<NewEntity(LabelType(label), token, word_id, idx)>>]
    ELSE [entities |-> Emit(ents, cur), current |-> <<>>]

\* zip(tokens, labels, word_ids) stops at the shortest
ZipLen == Min(Len(tokens), Min(Len(labels), Len(word_ids)))

\* ----------------------------------------------------------- span resolution
EntityStartIdx(entity) == entity.start_idx

\* mutant: the last index is taken one too far
EntityEndIdxOffByOne(entity) == entity.start_idx + Len(entity.tokens)

EntityEndIdx(entity) == entity.start_idx + Len(entity.tokens) - 1

\* mutant: only the first index is checked against the table
OutOfTableStartOnly(entity) == EntityStartIdx(entity) >= Len(offset_mapping)

\* the bounds check of the collection loop (TRUE: the entity is skipped)
OutOfTable(entity) ==
    \/ EntityStartIdx(entity) >= Len(offset_mapping)
    \/ EntityEndIdx(entity) >= Len(offset_mapping)

StartChar(entity) == At(offset_mapping, EntityStartIdx(entity))[1]

EndChar(entity) == At(offset_mapping, EntityEndIdx(entity))[2]

\* mutant: the test end_char > len(text) is missing
InvalidOffsetsNoEndTest(start_char, end_char) ==
    \/ (start_char = 0 /\ end_char = 0)
    \/ start_char >= Len(text)
    \/ start_char >= end_char

\* the three offset tests (TRUE: the entity is skipped)
InvalidOffsets(start_char, end_char) ==
    \/ (start_char = 0 /\ end_char = 0)
    \/ (start_char >= Len(text) \/ end_char > Len(text))
    \/ start_char >= end_char

\* mutant: the span's text is not trimmed
EntityTextUntrimmed(start_char, end_char) == Slice(text, start_char, end_char)

EntityText(start_char, end_char) == Strip(Slice(text, start_char, end_char))

\* mutant: the NAME mask is looked up like every other mask
MaskOfByLookup(entity, first_label) == MaskLookup(entity.type)

\* the mask of an entity whose first token has label first_label
MaskOf(entity, first_label) ==
    IF entity.type = "NAME"
    THEN (IF first_label = BLabel("NAME") THEN BNAME ELSE INAME)
    ELSE MaskLookup(entity.type)

\* ---------------------------------------------------------------- sanitizer
\* insert x into a list sorted by start descending, after the elements with an equal
\* start (list.sort is stable, also with reverse=True)
RECURSIVE InsertDesc(_, _)
InsertDesc(sorted, x) ==
    IF sorted = <<>> THEN <<x>>
    ELSE IF Head(sorted).start >= x.start THEN <<Head(sorted)>> \o InsertDesc(Tail(sorted), x)
    ELSE <<x>> \o sorted

\* mutant: the list is sorted by start ascending (reverse=True forgotten)
SortAscending(list) == list

RECURSIVE SortDesc(_)
SortDesc(list) ==
    IF list = <<>> THEN <<>>
    ELSE InsertDesc(SortDesc(SubSeq(list, 1, Len(list) - 1)), list[Len(list)])

\* sanitized_text[:start_char] + mask + sanitized_text[end_char:]
Replace(s, rep) == Slice(s, 0, rep.start) \o rep.mask \o SliceFrom(s, rep.end)

\* ------------------------------------------------------------------ actions
Init ==
    /\ pc = "idle"
    /\ text = <<>>
    /\ tokens = <<>>
    /\ word_ids = <<>>
    /\ offset_mapping = <<>>
    /\ labels = <<>>
    /\ i = 0
    /\ current_entity = <<>>
    /\ entities = <<>>
    /\ e = 0
    /\ redacted_items = <<>>
    /\ replacements = <<>>
    /\ r = 0
    /\ sanitized_text = <<>>
    /\ pred_labels = <<>>
    /\ response = [status |-> 0]

\* mutant: an error response that also carries what the handler had computed so far
ErrorResponsePartial ==
    [status |-> 500, detail |-> "Error processing text",
     sanitized_message |-> sanitized_text, redacted_items |-> redacted_items]

\* raise HTTPException(status_code=500, detail=...)
ErrorResponse == [status |-> 500, detail |-> "Error processing text"]

\* the framework's answer to a body that does not fit SanitizeRequest
ValidationResponse == [status |-> 422, detail |-> "Field required"]

\* SanitizeResponse(sanitized_message=sanitized_text, redacted_items=redacted_items)
OkResponse ==
    [status |-> 200, sanitized_message |-> sanitized_text,
     redacted_items |-> redacted_items]

\* mutant: a list that outlives the request (a module-level list)
SharedRedactedItems == redacted_items

\* redacted_items = []
NewRedactedItems == <<>>

\* mutant: the open entity is forgotten at the end of the scan
FlushForgotten(ents, cur) == ents

\* if current_entity: entities.append(current_entity), after the loop
Flush(ents, cur) == Emit(ents, cur)

\* a request arrives: text = request.message
Request(maxLen) ==
    /\ pc = "idle"
    /\ \E n \in 0..maxLen : text' \in TextsOfLen(n)
    /\ pc' = "infer"
    /\ UNCHANGED <<tokens, word_ids, offset_mapping, pred_labels, labels, i, current_entity,
                   entities, e, redacted_items, replacements, r, sanitized_text, response>>

\* a body without the message field is rejected before sanitize_text is entered
RequestInvalid ==
    /\ pc = "idle"
    /\ pc' = "rejected"
    /\ response' = ValidationResponse
    /\ UNCHANGED <<text, tokens, word_ids, offset_mapping, pred_labels, labels, i,
                   current_entity, entities, e, redacted_items, replacements, r,
                   sanitized_text>>

\* the tokenizer or the model raises: the handler's except clause answers
CollaboratorFails ==
    /\ pc = "infer"
    /\ pc' = "error"
    /\ response' = ErrorResponse
    /\ UNCHANGED <<text, tokens, word_ids, offset_mapping, pred_labels, labels, i,
                   current_entity, entities, e, redacted_items, replacements, r,
                   sanitized_text>>

\* pred_labels of n tokens and the lookup loop that turns them into labels
Classify(n, ids, id2label) ==
    \E preds \in [1..n -> ids] :
        LET looked == [k \in 1..n |-> LookupLabel(id2label, preds[k])]
        IN /\ pred_labels' = preds
           /\ IF \A k \in 1..n : looked[k] # <<>>
              THEN /\ labels' = [k \in 1..n |-> looked[k][1]]
                   /\ pc' = "group"
                   /\ response' = response
              ELSE /\ labels' = labels
                   /\ pc' = "error"
                   /\ response' = ErrorResponse

\* tokenizer, model and label lookup; then group_entities is entered
InferWith(maxTokens, ids, id2label) ==
    /\ pc = "infer"
    /\ \E n \in 0..maxTokens :
        /\ tokens' = [k \in 1..n |-> k - 1]
        /\ offset_mapping' \in TokenizerOffsets(Len(text), n)
        /\ word_ids' = WordIdsOf(offset_mapping')
        /\ Classify(n, ids, id2label)
    /\ i' = 0
    /\ current_entity' = <<>>
    /\ entities' = <<>>
    /\ UNCHANGED <<text, e, redacted_items, replacements, r, sanitized_text>>

Infer == InferWith(MaxTokens, PredIds, Id2Label)

\* the same with a table that has string keys, integer keys and a missing id
InferLabels == InferWith(MaxLabelTokens, MixedPredIds, Id2LabelMixed)

InferSvc == InferWith(MaxSvcTokens, RawPredIds, Id2Label)

\* the core under arbitrary collaborator outputs: the ranges of the table may be empty,
\* overlap, be out of order or lie past the end of the text, and the table may be
\* shorter than the token sequence
InferRaw ==
    /\ pc = "infer"
    /\ \E n \in 0..MaxRawTokens :
        /\ tokens' = [k \in 1..n |-> k - 1]
        /\ \E full \in [1..n -> RawRanges(Len(text))] :
            /\ word_ids' = WordIdsOf(full)
            /\ \E m \in 0..n : offset_mapping' = SubSeq(full, 1, m)
        /\ Classify(n, RawPredIds, Id2Label)
    /\ i' = 0
    /\ current_entity' = <<>>
    /\ entities' = <<>>
    /\ UNCHANGED <<text, e, redacted_items, replacements, r, sanitized_text>>

\* one iteration of the loop of group_entities
GroupStep ==
    /\ pc = "group"
    /\ i < ZipLen
    /\ LET next == GroupToken(entities, current_entity, At(tokens, i), At(labels, i),
                              At(word_ids, i), i)
       IN /\ entities' = next.entities
          /\ current_entity' = next.current
    /\ i' = i + 1
    /\ UNCHANGED <<pc, text, tokens, word_ids, offset_mapping, pred_labels, labels, e,
                   redacted_items, replacements, r, sanitized_text, response>>

\* end of the loop: the open entity is flushed and the list returned; the handler
\* creates its two result lists
GroupFlush ==
    /\ pc = "group"
    /\ i >= ZipLen
    /\ entities' = Flush(entities, current_entity)
    /\ current_entity' = <<>>
    /\ pc' = "collect"
    /\ e' = 0
    /\ redacted_items' = NewRedactedItems
    /\ replacements' = <<>>
    /\ UNCHANGED <<text, tokens, word_ids, offset_mapping, pred_labels, labels, i, r,
                   sanitized_text, response>>

\* an IndexError is caught by the handler and turned into a 500 response
Raise ==
    /\ pc' = "error"
    /\ response' = ErrorResponse
    /\ UNCHANGED <<text, tokens, word_ids, offset_mapping, pred_labels, labels, i,
                   current_entity, entities, e, redacted_items, replacements, r,
                   sanitized_text>>

\* mutant: the item is put in front of the list
ItemsWithInFront(items, entity_text) == <<entity_text>> \o items

\* redacted_items.append(entity_text)
ItemsWith(items, entity_text) == Append(items, entity_text)

\* labels[entity["start_idx"]] raises an IndexError: the item is already appended, the
\* span is not, and the handler's except clause answers
RaiseAfterItem(entity_text) ==
    /\ redacted_items' = ItemsWith(redacted_items, entity_text)
    /\ pc' = "error"
    /\ response' = ErrorResponse
    /\ UNCHANGED <<text, tokens, word_ids, offset_mapping, pred_labels, labels, i,
                   current_entity, entities, e, replacements, r, sanitized_text>>

\* the entity is skipped (continue)
Skip ==
    /\ e' = e + 1
    /\ UNCHANGED <<pc, text, tokens, word_ids, offset_mapping, pred_labels, labels, i,
                   current_entity, entities, redacted_items, replacements, r,
                   sanitized_text, response>>

\* one iteration of the collection loop
CollectStep ==
    /\ pc = "collect"
    /\ e < Len(entities)
    /\ LET entity == At(entities, e)
       IN IF entity.word_ids = <<>> THEN Skip
          ELSE IF OutOfTable(entity) THEN Skip
          ELSE IF ~ReadOK(offset_mapping, EntityStartIdx(entity))
                  \/ ~ReadOK(offset_mapping, EntityEndIdx(entity))
          THEN Raise
          ELSE LET start_char == StartChar(entity)
                   end_char == EndChar(entity)
               IN IF InvalidOffsets(start_char, end_char) THEN Skip
                  ELSE LET entity_text == EntityText(start_char, end_char)
                       IN IF entity_text = <<>> THEN Skip
                          ELSE IF ~ReadOK(labels, entity.start_idx)
                          THEN RaiseAfterItem(entity_text)
                          ELSE /\ redacted_items' = ItemsWith(redacted_items, entity_text)
                               /\ replacements' =
                                    Append(replacements,
                                           [start |-> start_char, end |-> end_char,
                                            mask |-> MaskOf(entity,
                                                            At(labels, entity.start_idx))])
                               /\ e' = e + 1
                               /\ UNCHANGED <<pc, text, tokens, word_ids, offset_mapping,
                                              pred_labels, labels, i, current_entity,
                                              entities, r, sanitized_text, response>>

\* replacements.sort(key=start, reverse=True); sanitized_text = text
SortStep ==
    /\ pc = "collect"
    /\ e >= Len(entities)
    /\ replacements' = SortDesc(replacements)
    /\ sanitized_text' = text
    /\ r' = 0
    /\ pc' = "rewrite"
    /\ UNCHANGED <<text, tokens, word_ids, offset_mapping, pred_labels, labels, i,
                   current_entity, entities, e, redacted_items, response>>

\* one iteration of the rewrite loop
RewriteStep ==
    /\ pc = "rewrite"
    /\ r < Len(replacements)
    /\ sanitized_text' = Replace(sanitized_text, At(replacements, r))
    /\ r' = r + 1
    /\ UNCHANGED <<pc, text, tokens, word_ids, offset_mapping, pred_labels, labels, i,
                   current_entity, entities, e, redacted_items, replacements, response>>

\* return SanitizeResponse(sanitized_message, redacted_items)
Respond ==
    /\ pc = "rewrite"
    /\ r >= Len(replacements)
    /\ pc' = "done"
    /\ response' = OkResponse
    /\ UNCHANGED <<text, tokens, word_ids, offset_mapping, pred_labels, labels, i,
                   current_entity, entities, e, redacted_items, replacements, r,
                   sanitized_text>>

\* the server takes the next request once the handler has returned: the handler has
\* no await, so the event loop runs the calls one after another
NextCall ==
    /\ pc \in {"done", "error", "rejected"}
    /\ pc' = "idle"
    /\ UNCHANGED <<text, tokens, word_ids, offset_mapping, pred_labels, labels, i,
                   current_entity, entities, e, redacted_items, replacements, r,
                   sanitized_text, response>>

Next ==
    \/ Request(MaxTextLen)
    \/ Infer
    \/ GroupStep
    \/ GroupFlush
    \/ CollectStep
    \/ SortStep
    \/ RewriteStep
    \/ Respond

Spec == Init /\ [][Next]_vars

NextRaw ==
    \/ Request(MaxRawTextLen)
    \/ InferRaw
    \/ GroupStep
    \/ GroupFlush
    \/ CollectStep
    \/ SortStep
    \/ RewriteStep
    \/ Respond

SpecRaw == Init /\ [][NextRaw]_vars

\* the core with the mixed id2label table
NextLabels ==
    \/ Request(MaxLabelTextLen)
    \/ InferLabels
    \/ GroupStep
    \/ GroupFlush
    \/ CollectStep
    \/ SortStep
    \/ RewriteStep
    \/ Respond

SpecLabels == Init /\ [][NextLabels]_vars

\* the endpoint: invalid bodies, failing collaborators and one call after another
NextService ==
    \/ Request(MaxSvcTextLen)
    \/ RequestInvalid
    \/ InferSvc
    \/ CollaboratorFails
    \/ GroupStep
    \/ GroupFlush
    \/ CollectStep
    \/ SortStep
    \/ RewriteStep
    \/ Respond
    \/ NextCall

SpecService == Init /\ [][NextService]_vars

\* ------------------------------------------------------------------ claims
Range(seq) == {seq[k] : k \in 1..Len(seq)}

RECURSIVE InsertAsc(_, _)
InsertAsc(sorted, x) ==
    IF sorted = <<>> THEN <<x>>
    ELSE IF Head(sorted).start <= x.start THEN <<Head(sorted)>> \o InsertAsc(Tail(sorted), x)
    ELSE <<x>> \o sorted

RECURSIVE SortAsc(_)
SortAsc(list) ==
    IF list = <<>> THEN <<>>
    ELSE InsertAsc(SortAsc(SubSeq(list, 1, Len(list) - 1)), list[Len(list)])

\* the kept replacement spans in ascending start order
AscSpans == SortAsc(replacements)

\* text[pos : s1.start] + mask1 + text[s1.end : s2.start] + ... + text[sk.end :]
RECURSIVE Assemble(_, _, _)
Assemble(t, spans, pos) ==
    IF spans = <<>> THEN SliceFrom(t, pos)
    ELSE Slice(t, pos, Head(spans).start) \o Head(spans).mask
         \o Assemble(t, Tail(spans), Head(spans).end)

\* C1: when the handler returns, sanitized_message is the original text with every kept
\* span, taken in ascending start order, replaced in place by its mask: the text before
\* the first span, the first mask, the text between the first and the second span, ...,
\* the last mask, the text after the last span.
C1_MaskSubstitution == pc = "done" => sanitized_text = Assemble(text, AscSpans, 0)

\* a call that returned after two replacements with text left between the two spans
C1_Witness ==
    /\ pc = "done"
    /\ Len(replacements) = 2
    /\ AscSpans[1].end < AscSpans[2].start
    /\ sanitized_text # text

\* C2: redacted_items is in left-to-right order of occurrence: its k-th element is the
\* trimmed text of the k-th kept span in ascending start order, and the starts of the
\* kept spans are pairwise different.
C2_ItemsLeftToRight ==
    pc \in {"rewrite", "done"} =>
        /\ Len(redacted_items) = Len(AscSpans)
        /\ \A k \in 1..Len(AscSpans) :
            redacted_items[k] = Strip(Slice(text, AscSpans[k].start, AscSpans[k].end))
        /\ \A k \in 1..(Len(AscSpans) - 1) : AscSpans[k].start < AscSpans[k + 1].start

\* a call that returned two different redacted items
C2_Witness ==
    /\ pc = "done"
    /\ Len(redacted_items) >= 2
    /\ redacted_items[1] # redacted_items[2]

NonOverlapping(a, b) == a.end <= b.start \/ b.end <= a.start

\* C3: at every point the collected spans lie inside the text with start < end, no two
\* of them overlap, and they are sorted by start: ascending as collected, descending
\* once the rewrite pass has sorted them.
C3_SpansDisjointSorted ==
    /\ \A k \in 1..Len(replacements) :
        /\ 0 <= replacements[k].start
        /\ replacements[k].start < replacements[k].end
        /\ replacements[k].end <= Len(text)
    /\ \A a \in 1..Len(replacements) : \A b \in 1..Len(replacements) :
        a < b => NonOverlapping(replacements[a], replacements[b])
    /\ pc = "collect" =>
        \A k \in 1..(Len(replacements) - 1) :
            replacements[k].end <= replacements[k + 1].start
    /\ pc \in {"rewrite", "done"} =>
        \A k \in 1..(Len(replacements) - 1) :
            replacements[k + 1].end <= replacements[k].start

\* the collection loop has collected three spans
C3_Witness == pc = "collect" /\ e = Len(entities) /\ Len(replacements) = 3

\* the two-state machine {Idle, InEntity(c)}: its state, with the open entity's member
\* tokens and the entities emitted so far
MachineInit == [mode |-> "Idle", cat |-> "", members |-> <<>>, emitted |-> <<>>]

MachineEmit(st) ==
    IF st.mode = "InEntity"
    THEN Append(st.emitted, [category |-> st.cat, members |-> st.members])
    ELSE st.emitted

\* emit the open entity (if any) and open InEntity(c) with the token idx
MachineOpen(st, c, idx) ==
    [mode |-> "InEntity", cat |-> c, members |-> <<idx>>, emitted |-> MachineEmit(st)]

\* the transition of the machine on the non-special token idx with the given label
MachineStep(st, label, idx) ==
    CASE label.prefix = "B" -> MachineOpen(st, label.type, idx)
      [] label.prefix = "I" /\ st.mode = "InEntity" /\ st.cat = label.type ->
            [st EXCEPT !.members = Append(@, idx)]
      [] label.prefix = "I" /\ ~(st.mode = "InEntity" /\ st.cat = label.type) ->
            MachineOpen(st, label.type, idx)
      [] OTHER -> [mode |-> "Idle", cat |-> "", members |-> <<>>, emitted |-> MachineEmit(st)]

\* the machine's state after the first k tokens (special tokens are not fed to it)
RECURSIVE MachineRun(_)
MachineRun(k) ==
    IF k = 0 THEN MachineInit
    ELSE IF word_ids[k] = None THEN MachineRun(k - 1)
    ELSE MachineStep(MachineRun(k - 1), labels[k], k - 1)

\* the machine's output at end of input
MachineOutput == MachineEmit(MachineRun(Len(labels)))

\* an entity of group_entities as the machine sees it
EntityView(entity) == [category |-> entity.type, members |-> entity.tokens]

EntityViews(ents) == [k \in 1..Len(ents) |-> EntityView(ents[k])]

\* C4: group_entities refines the two-state machine: after every iteration the entities
\* emitted so far are the machine's, current_entity is None exactly in Idle and is
\* otherwise the open entity of InEntity(c) with the same category and members, and the
\* list returned is the machine's output at end of input.
C4_GrouperRefinesMachine ==
    /\ pc = "group" =>
        LET st == MachineRun(i)
        IN /\ EntityViews(entities) = st.emitted
           /\ (current_entity = <<>>) = (st.mode = "Idle")
           /\ current_entity # <<>> =>
                EntityView(current_entity[1]) = [category |-> st.cat, members |-> st.members]
    /\ pc \in {"collect", "rewrite", "done"} => EntityViews(entities) = MachineOutput

\* the grouper returned after an Inside label of another category closed an open entity
\* and a later Outside label closed the one it opened
C4_Witness ==
    /\ pc = "collect"
    /\ Len(entities) = 2
    /\ Len(labels) = 3
    /\ labels[1].prefix = "B"
    /\ labels[2].prefix = "I"
    /\ labels[2].type # labels[1].type
    /\ labels[3].prefix = "O"
    /\ None \notin Range(word_ids)

\* the entity the collection loop resolves next
Pending == At(entities, e)

FirstMember(entity) == entity.tokens[1]

LastMember(entity) == entity.tokens[Len(entity.tokens)]

\* C5: for the entity the collection loop is resolving, start_char is the offset start of
\* the entity's first member token and end_char the offset end of its last member
\* token, wherever the skipped special tokens lie.
C5_SpanFromFirstAndLastMember ==
    (pc = "collect" /\ e < Len(entities) /\ ~OutOfTable(Pending)
        /\ ReadOK(offset_mapping, LastMember(Pending))) =>
        /\ StartChar(Pending) = At(offset_mapping, FirstMember(Pending))[1]
        /\ EndChar(Pending) = At(offset_mapping, LastMember(Pending))[2]

\* C7: the handler never reaches the error state: no subscript read of the grouping,
\* resolution and rewrite passes leaves its list, whatever the labels, word ids, offset
\* table (also one shorter than the label sequence) and text.
C7_NoError ==
    /\ pc # "error"
    /\ (pc = "group" /\ i < ZipLen) =>
        ReadOK(tokens, i) /\ ReadOK(labels, i) /\ ReadOK(word_ids, i)
    /\ (pc = "collect" /\ e < Len(entities) /\ ~OutOfTable(Pending)) =>
        /\ ReadOK(offset_mapping, EntityStartIdx(Pending))
        /\ ReadOK(offset_mapping, EntityEndIdx(Pending))
        /\ ReadOK(labels, Pending.start_idx)

\* a call returned although a two-token entity ended past a table shorter than the labels
C7_Witness ==
    /\ pc = "done"
    /\ Len(offset_mapping) < Len(labels)
    /\ \E k \in 1..Len(entities) :
        /\ EntityStartIdx(entities[k]) < Len(offset_mapping)
        /\ EntityEndIdx(entities[k]) >= Len(offset_mapping)

\* the kept span of an entity: the one that starts where the entity's first token starts
SpanOfEntity(entity, rep) ==
    /\ ReadOK(offset_mapping, FirstMember(entity))
    /\ rep.start = At(offset_mapping, FirstMember(entity))[1]

\* the call grouped exactly one entity, of type NAME, spanning all the tokens, and
\* replaced it by the given mask (by nothing when the tokens cover only whitespace)
OneNameEntityMasked(mask) ==
    /\ Len(entities) = 1
    /\ entities[1].type = "NAME"
    /\ entities[1].tokens = tokens
    /\ Len(replacements) =
        IF Strip(Slice(text, offset_mapping[1][1], offset_mapping[Len(offset_mapping)][2]))
            = <<>>
        THEN 0 ELSE 1
    /\ \A m \in 1..Len(replacements) : replacements[m].mask = mask

\* C8: the mask of a kept NAME entity is [BNAME] when the label of its first member token
\* is B-NAME and [INAME] otherwise; labels [B-NAME, I-NAME] over two tokens give exactly
\* one entity, of type NAME, masked [BNAME], and a lone I-NAME gives exactly one entity,
\* of type NAME, masked [INAME] (no mask is inserted for an entity of whitespace only).
C8_NameMask ==
    pc \in {"rewrite", "done"} =>
        /\ \A k \in 1..Len(entities) : \A m \in 1..Len(replacements) :
            (entities[k].type = "NAME" /\ SpanOfEntity(entities[k], replacements[m])) =>
                replacements[m].mask =
                    IF At(labels, FirstMember(entities[k])) = BLabel("NAME")
                    THEN BNAME ELSE INAME
        /\ (labels = <<BLabel("NAME"), ILabel("NAME")>> /\ None \notin Range(word_ids)) =>
            OneNameEntityMasked(BNAME)
        /\ (labels = <<ILabel("NAME")>> /\ None \notin Range(word_ids)) =>
            OneNameEntityMasked(INAME)

\* a call returned with an orphaned I-NAME entity masked [INAME] after a B-NAME entity
\* masked [BNAME]
C8_Witness ==
    /\ pc = "done"
    /\ Len(replacements) = 2
    /\ AscSpans[1].mask = BNAME
    /\ AscSpans[2].mask = INAME
    /\ \E k \in 1..Len(entities) :
        Len(entities[k].tokens) = 1 /\ At(labels, FirstMember(entities[k])) = ILabel("NAME")

\* no token at all, or every token that is not special labelled Outside
NoLabelledToken ==
    \A k \in 1..Len(labels) : word_ids[k] = None \/ labels[k].prefix \notin {"B", "I"}

\* C9: when the call produces zero entities (no token, or every non-special token
\* labelled Outside), the entity list is empty, sanitized_message is the original text
\* and redacted_items is empty.
C9_NoPiiIdentity ==
    pc = "done" =>
        /\ NoLabelledToken => entities = <<>>
        /\ entities = <<>> => (sanitized_text = text /\ redacted_items = <<>>)

\* a call returned for a non-empty text whose real tokens are all labelled Outside
C9_Witness ==
    /\ pc = "done"
    /\ NoLabelledToken
    /\ text # <<>>
    /\ \E k \in 1..Len(labels) : word_ids[k] # None /\ labels[k] = OLabel
    /\ \E k \in 1..Len(labels) : word_ids[k] = None /\ labels[k] # OLabel

\* item occurs in t as a contiguous substring
IsSubstring(item, t) ==
    \E a \in 0..Len(t) : \E b \in a..Len(t) : item = SubSeq(t, a + 1, b)

\* C10: at every point every element of redacted_items is a non-empty contiguous
\* substring of the original text that neither starts nor ends with whitespace.
C10_ItemsTrimmedSubstrings ==
    \A k \in 1..Len(redacted_items) :
        /\ redacted_items[k] # <<>>
        /\ redacted_items[k][1] \notin Whitespace
        /\ redacted_items[k][Len(redacted_items[k])] \notin Whitespace
        /\ IsSubstring(redacted_items[k], text)

\* an item was collected whose span began with whitespace that the item does not have
C10_Witness ==
    /\ pc = "collect"
    /\ Len(redacted_items) = 1
    /\ Len(replacements) = 1
    /\ text[replacements[1].start + 1] \in Whitespace
    /\ Len(redacted_items[1]) < replacements[1].end - replacements[1].start

\* the first and last token index the resolver takes for an entity (see C5 for the last)
SpanFirst(entity) == entity.start_idx

SpanLast(entity) == entity.start_idx + Len(entity.tokens) - 1

SpanInTable(entity) ==
    SpanFirst(entity) < Len(offset_mapping) /\ SpanLast(entity) < Len(offset_mapping)

SpanStart(entity) == offset_mapping[SpanFirst(entity) + 1][1]

SpanEnd(entity) == offset_mapping[SpanLast(entity) + 1][2]

\* the entity's span fails one of the six resolver rules
FailsRule(entity) ==
    \/ ~SpanInTable(entity)
    \/ (SpanStart(entity) = 0 /\ SpanEnd(entity) = 0)
    \/ SpanStart(entity) >= Len(text)
    \/ SpanEnd(entity) > Len(text)
    \/ SpanStart(entity) >= SpanEnd(entity)
    \/ \A p \in (SpanStart(entity) + 1)..SpanEnd(entity) : text[p] \in Whitespace

PassesRules(entity) == ~FailsRule(entity)

\* the entities that pass every rule, in order
Passing == SelectSeq(entities, PassesRules)

\* the span and mask the passing entity is replaced by
ExpectedRep(entity) ==
    [start |-> SpanStart(entity), end |-> SpanEnd(entity),
     mask |-> IF entity.type = "NAME"
              THEN (IF labels[entity.start_idx + 1].prefix = "B" THEN BNAME ELSE INAME)
              ELSE Bracket(entity.type)]

ExpectedReps == [k \in 1..Len(Passing) |-> ExpectedRep(Passing[k])]

\* the replacements applied one after the other, from the first of the list
RECURSIVE ApplyAll(_, _)
ApplyAll(t, reps) == IF reps = <<>> THEN t ELSE ApplyAll(Replace(t, Head(reps)), Tail(reps))

\* the ranges of the real tokens of the table are in increasing order and do not overlap
MonotonicOffsets ==
    \A a \in 1..Len(offset_mapping) : \A b \in 1..Len(offset_mapping) :
        (a < b /\ offset_mapping[a] # Special /\ offset_mapping[b] # Special) =>
            offset_mapping[a][2] <= offset_mapping[b][1]

RECURSIVE CountOf(_, _)
CountOf(ch, t) ==
    IF t = <<>> THEN 0 ELSE (IF Head(t) = ch THEN 1 ELSE 0) + CountOf(ch, Tail(t))

\* how far the kept spans that end at or before position p move the text behind them
RECURSIVE ShiftAt(_, _)
ShiftAt(p, reps) ==
    IF reps = <<>> THEN 0
    ELSE (IF Head(reps).end <= p
          THEN Len(Head(reps).mask) - (Head(reps).end - Head(reps).start)
          ELSE 0) + ShiftAt(p, Tail(reps))

\* the character at position p of the text is outside every kept span and is found,
\* moved by the masks before it, in sanitized_message
Untouched(p) ==
    /\ \A m \in 1..Len(replacements) :
        p < replacements[m].start \/ p >= replacements[m].end
    /\ sanitized_text[p + ShiftAt(p, replacements) + 1] = text[p + 1]

\* C6: when the handler returns, an entity whose span fails a resolver rule has left no
\* trace: redacted_items and the replacements are exactly those of the entities that
\* pass every rule, in order, sanitized_message is the text rewritten with those
\* replacements alone, and, when the table's ranges are in order and do not overlap, it
\* holds one mask per passing entity and the characters of the text in the failing
\* entity's range stand unchanged in it.
C6_FailingEntityDropped ==
    pc = "done" =>
        /\ redacted_items =
            [k \in 1..Len(Passing) |->
                Strip(SubSeq(text, SpanStart(Passing[k]) + 1, SpanEnd(Passing[k])))]
        /\ Len(replacements) = Len(Passing)
        /\ Range(replacements) = Range(ExpectedReps)
        /\ sanitized_text = ApplyAll(text, SortDesc(ExpectedReps))
        /\ MonotonicOffsets =>
            /\ CountOf("[", sanitized_text) = Len(Passing)
            /\ sanitized_text = Assemble(text, ExpectedReps, 0)
            /\ \A k \in 1..Len(entities) :
                (FailsRule(entities[k]) /\ SpanInTable(entities[k])) =>
                    \A p \in SpanStart(entities[k])..(SpanEnd(entities[k]) - 1) :
                        p < Len(text) => Untouched(p)

\* a call returned in which the first entity, of whitespace only, was dropped and the
\* second, behind it, was replaced
C6_Witness ==
    /\ pc = "done"
    /\ MonotonicOffsets
    /\ Len(entities) = 2
    /\ FailsRule(entities[1])
    /\ SpanInTable(entities[1])
    /\ SpanStart(entities[1]) < SpanEnd(entities[1])
    /\ SpanEnd(entities[1]) <= Len(text)
    /\ PassesRules(entities[2])
    /\ Len(replacements) = 1

\* the id has no entry in the mixed table, neither as str(pred_int) nor as pred_int
AbsentId(pred) ==
    /\ StrKey(pred) \notin DOMAIN Id2LabelMixed
    /\ IntKey(pred) \notin DOMAIN Id2LabelMixed

\* the open entity, if any, is emitted and no entity is open afterwards
ClosesOpenEntity ==
    /\ current_entity' = <<>>
    /\ entities' = IF current_entity = <<>> THEN entities
                   ELSE Append(entities, current_entity[1])

\* C11: a predicted id without a string key and without an integer key in id2label
\* becomes the label O and the lookup never raises (no error state, one label per
\* prediction); when the grouper scans a non-special token with such an id it emits the
\* open entity, if there is one, and leaves no entity open.
C11_AbsentIdIsOutside ==
    /\ [](/\ pc # "error"
          /\ pc \notin {"idle", "infer"} =>
                /\ Len(labels) = Len(pred_labels)
                /\ \A k \in 1..Len(pred_labels) :
                        AbsentId(pred_labels[k]) => labels[k] = OLabel)
    /\ [][(/\ pc = "group"
           /\ i < ZipLen
           /\ At(word_ids, i) # None
           /\ AbsentId(At(pred_labels, i))) => ClosesOpenEntity]_vars

\* a token with an absent id has just closed the entity its predecessor had opened
C11_Witness ==
    /\ pc = "group"
    /\ i = 2
    /\ AbsentId(At(pred_labels, 1))
    /\ At(word_ids, 1) # None
    /\ current_entity = <<>>
    /\ Len(entities) = 1
    /\ entities[1].tokens = <<0>>

SSNMask == <<"[", "S", "S", "N", "]">>

ZIPMask == <<"[", "Z", "I", "P", "]">>

\* C12: a kept entity of a category other than NAME is masked by the catalog's
\* [CATEGORY] when the category is in the catalog, whether its first token is labelled
\* B- or I- (here SSN, opened by an I- label), and by the literal [<category>] when it
\* is not (here ZIP); a category outside the catalog raises no error, and an entity of
\* such a category whose span passes the resolver's rules is kept.
C12_CategoryMask ==
    /\ pc # "error"
    /\ pc \in {"rewrite", "done"} =>
        /\ \A k \in 1..Len(entities) : \A m \in 1..Len(replacements) :
            (entities[k].type # "NAME" /\ SpanOfEntity(entities[k], replacements[m])) =>
                replacements[m].mask =
                    CASE entities[k].type = "SSN" -> SSNMask
                      [] entities[k].type = "ZIP" -> ZIPMask
        /\ \A k \in 1..Len(entities) :
            (entities[k].type \notin Catalog /\ PassesRules(entities[k])) =>
                \E m \in 1..Len(replacements) :
                    /\ SpanOfEntity(entities[k], replacements[m])
                    /\ replacements[m].mask = ZIPMask

\* a call returned after masking an entity of the unknown category ZIP and an entity of
\* category SSN whose first token is labelled I-SSN
C12_Witness ==
    /\ pc = "done"
    /\ labels = <<BLabel("ZIP"), ILabel("SSN")>>
    /\ "ZIP" \notin Catalog
    /\ Len(replacements) = 2
    /\ AscSpans[1].mask = ZIPMask
    /\ AscSpans[2].mask = SSNMask
    /\ sanitized_text = ZIPMask \o SSNMask

\* the variables of the core (everything but the handler's position and the response)
core_vars ==
    <<text, tokens, word_ids, offset_mapping, pred_labels, labels, i, current_entity,
      entities, e, redacted_items, replacements, r, sanitized_text>>

\* C13: a request during which the tokenizer or the model raises ends in the error
\* state with a response of status 500 that carries a detail message and neither
\* sanitized_message nor redacted_items; a request without the message field ends
\* rejected with status 422, and the step that rejects it runs nothing of the core.
C13_FailureResponses ==
    /\ [](/\ pc = "error" =>
                /\ response.status = 500
                /\ DOMAIN response = {"status", "detail"}
                /\ response.detail # ""
          /\ pc = "rejected" =>
                /\ response.status = 422
                /\ DOMAIN response = {"status", "detail"})
    /\ [][/\ (pc = "infer" /\ pc' \notin {"infer", "group"}) => pc' = "error"
          /\ pc' = "rejected" => (pc \in {"idle", "rejected"} /\ UNCHANGED core_vars)
          /\ pc = "rejected" => pc' \in {"rejected", "idle"}]_vars

\* the collaborators failed in a call that followed a successful one, whose results are
\* not in the error response
C13_Witness ==
    /\ pc = "error"
    /\ response = [status |-> 500, detail |-> "Error processing text"]
    /\ redacted_items # <<>>
    /\ sanitized_text # <<>>

\* group_entities as a function of the call's labels and word ids: the state after the
\* first k tokens, starting from no entity
RECURSIVE GroupAll(_)
GroupAll(k) ==
    IF k = 0 THEN [entities |-> <<>>, current |-> <<>>]
    ELSE LET before == GroupAll(k - 1)
         IN GroupToken(before.entities, before.current, At(tokens, k - 1),
                       At(labels, k - 1), At(word_ids, k - 1), k - 1)

PureEntities == Flush(GroupAll(ZipLen).entities, GroupAll(ZipLen).current)

PureKept == SelectSeq(PureEntities, PassesRules)

\* the result of a call as a function of its text, labels, word ids and offsets
PureItems ==
    [k \in 1..Len(PureKept) |->
        Strip(Slice(text, SpanStart(PureKept[k]), SpanEnd(PureKept[k])))]

PureMessage == ApplyAll(text, SortDesc([k \in 1..Len(PureKept) |-> ExpectedRep(PureKept[k])]))

AgreeBelow(n) ==
    /\ n <= Len(sanitized_text)
    /\ \A p \in 1..n : sanitized_text[p] = text[p]

\* C15: in the rewrite loop, which takes the replacements by descending start_char,
\* once r replacements are applied the working string equals the original text on every
\* position below the end of each replacement still to be applied, so the offsets of
\* the pending spans address the characters they addressed in the original text.
C15_PendingSpansUntouched ==
    pc = "rewrite" =>
        \A m \in (r + 1)..Len(replacements) : AgreeBelow(replacements[m].end)

\* one replacement is applied and has changed the string, another one is pending
C15_Witness ==
    /\ pc = "rewrite"
    /\ r = 1
    /\ Len(replacements) = 2
    /\ sanitized_text # text
    /\ replacements[2].end <= replacements[1].start

\* the emitted entities followed by the open one
AllEntities == entities \o current_entity

\* group_entities has just returned: its result is in entities, which no later step of
\* the handler changes
ScanEnded == pc = "collect" /\ e = 0

\* C16: during the scan of group_entities and in its result, every entity, emitted or open,
\* has at least one member token; the label of every member is a B- or I- label of the
\* entity's category; the members of an entity are in increasing token order, and every
\* member of an entity precedes every member of the entities after it, so the entities
\* are in increasing token order and no token belongs to two of them.
C16_EntitiesWellFormed ==
    (pc = "group" \/ ScanEnded) =>
        /\ \A k \in 1..Len(AllEntities) :
            LET ent == AllEntities[k]
            IN /\ Len(ent.tokens) >= 1
               /\ \A t \in 1..Len(ent.tokens) :
                    /\ At(labels, ent.tokens[t]).prefix \in {"B", "I"}
                    /\ At(labels, ent.tokens[t]).type = ent.type
               /\ \A t \in 1..(Len(ent.tokens) - 1) : ent.tokens[t] < ent.tokens[t + 1]
        /\ \A k \in 1..(Len(AllEntities) - 1) :
            /\ AllEntities[k].tokens[Len(AllEntities[k].tokens)] < AllEntities[k + 1].tokens[1]
            /\ Range(AllEntities[k].tokens) \cap Range(AllEntities[k + 1].tokens) = {}

\* the scan has emitted an entity of two tokens and holds another one open
C16_Witness ==
    /\ pc = "group"
    /\ Len(entities) = 1
    /\ Len(entities[1].tokens) = 2
    /\ current_entity # <<>>
    /\ current_entity[1].type # entities[1].type

\* the positions of the non-special tokens, in order
RealTokens == SelectSeq([k \in 1..ZipLen |-> k - 1], LAMBDA t : At(word_ids, t) # None)

\* the grouper's state after the first n non-special tokens, the special ones removed
RECURSIVE GroupReal(_)
GroupReal(n) ==
    IF n = 0 THEN [entities |-> <<>>, current |-> <<>>]
    ELSE LET before == GroupReal(n - 1)
             t == RealTokens[n]
         IN GroupToken(before.entities, before.current, At(tokens, t), At(labels, t),
                       At(word_ids, t), t)

\* the number of non-special tokens before position k
RealBefore(k) == Cardinality({t \in 0..(k - 1) : t < ZipLen /\ At(word_ids, t) # None})

\* C17: the step of the scan over a token without a word id changes neither the list
\* of emitted entities nor the open entity, whatever the token's label; no entity has
\* such a token as a member; and at every point of the scan the grouper's state is the
\* one it reaches on the sequence with the special tokens removed, so an open entity
\* continues across a special token.
C17_SpecialTokenSkipped ==
    /\ [][(pc = "group" /\ i < ZipLen /\ At(word_ids, i) = None) =>
            (entities' = entities /\ current_entity' = current_entity /\ i' = i + 1)]_vars
    /\ [](pc \in {"group", "collect", "rewrite", "done"} =>
            \A k \in 1..Len(AllEntities) : \A t \in 1..Len(AllEntities[k].tokens) :
                At(word_ids, AllEntities[k].tokens[t]) # None)
    /\ [](pc = "group" =>
            /\ entities = GroupReal(RealBefore(i)).entities
            /\ current_entity = GroupReal(RealBefore(i)).current)

\* an entity opened before a special token was continued by the I- token after it, and
\* the special token carries a B- label
C17_Witness ==
    /\ pc = "group"
    /\ i = 3
    /\ word_ids[2] = None
    /\ labels[2].prefix = "B"
    /\ entities = <<>>
    /\ current_entity # <<>>
    /\ current_entity[1].tokens = <<0, 2>>

\* token t is scanned by the grouper and is not a special token
RealToken(t) == t \in 0..(ZipLen - 1) /\ At(word_ids, t) # None

Labelled(t) == RealToken(t) /\ At(labels, t).prefix \in {"B", "I"}

\* the non-special tokens before t
RealBelow(t) == {u \in 0..(t - 1) : RealToken(u)}

\* the closest non-special token before t (there is one)
PrevReal(t) == CHOOSE u \in RealBelow(t) : \A v \in RealBelow(t) : v <= u

\* token t opens an entity: a B- token, or an I- token that has no entity of its
\* category to continue
Opens(t) ==
    /\ Labelled(t)
    /\ \/ At(labels, t).prefix = "B"
       \/ RealBelow(t) = {}
       \/ ~Labelled(PrevReal(t))
       \/ At(labels, PrevReal(t)).type # At(labels, t).type

\* C18: while the scan runs, every entity opened so far is exactly once among the
\* emitted entities and the open one; when the scan has ended no entity is open, every
\* token that opened an entity is the first member of exactly one emitted entity
\* (also the entity that was open at the end of the sequence), there is no other
\* emitted entity, and every non-special token with a B- or I- label is a member of
\* exactly one emitted entity.
C18_OpenedEntitiesEmittedOnce ==
    /\ pc = "group" =>
        \A t \in 0..(i - 1) :
            Opens(t) =>
                Cardinality({k \in 1..Len(AllEntities) : AllEntities[k].tokens[1] = t}) = 1
    /\ ScanEnded =>
        /\ current_entity = <<>>
        /\ \A t \in 0..(ZipLen - 1) :
            /\ Opens(t) =>
                Cardinality({k \in 1..Len(entities) : entities[k].tokens[1] = t}) = 1
            /\ Labelled(t) =>
                Cardinality({k \in 1..Len(entities) : t \in Range(entities[k].tokens)}) = 1
        /\ Len(entities) = Cardinality({t \in 0..(ZipLen - 1) : Opens(t)})

\* the scan has ended with two entities; the second one was open when the sequence
\* ended
C18_Witness ==
    /\ pc = "collect"
    /\ e = 0
    /\ Len(tokens) = 3
    /\ Len(entities) = 2
    /\ entities[2].tokens = <<1, 2>>

\* the number of tokens the scan has consumed
Scanned == IF pc = "group" THEN i ELSE ZipLen

\* tokens t and u are members of the same entity
SameEntity(t, u) ==
    \E k \in 1..Len(AllEntities) :
        t \in Range(AllEntities[k].tokens) /\ u \in Range(AllEntities[k].tokens)

\* no non-special token lies strictly between the tokens t and u
NothingBetween(t, u) == \A v \in (t + 1)..(u - 1) : ~RealToken(v)

\* C19: an I- token of category c whose closest non-special predecessor is a member of
\* an entity of category c is a member of that same entity (it was appended, no new
\* entity was opened); hence when two consecutive entities have the same category and no
\* non-special token lies between the last member of the first and the first member of
\* the second, the first member of the second has a B- label.
C19_MaximalRuns ==
    (pc = "group" \/ ScanEnded) =>
        /\ \A t \in 0..(Scanned - 1) :
            (/\ Labelled(t)
             /\ At(labels, t).prefix = "I"
             /\ RealBelow(t) # {}
             /\ Labelled(PrevReal(t))
             /\ At(labels, PrevReal(t)).type = At(labels, t).type) =>
                SameEntity(PrevReal(t), t)
        /\ \A k \in 1..(Len(AllEntities) - 1) :
            (/\ AllEntities[k].type = AllEntities[k + 1].type
             /\ NothingBetween(AllEntities[k].tokens[Len(AllEntities[k].tokens)],
                               AllEntities[k + 1].tokens[1])) =>
                At(labels, AllEntities[k + 1].tokens[1]).prefix = "B"

\* an entity of two tokens, the second appended by its I- label, is directly followed
\* by an entity of the same category, opened by a B- label
C19_Witness ==
    /\ ScanEnded
    /\ Len(entities) = 2
    /\ entities[1].type = entities[2].type
    /\ Len(entities[1].tokens) = 2
    /\ At(labels, entities[1].tokens[2]).prefix = "I"
    /\ entities[2].tokens[1] = entities[1].tokens[2] + 1
    /\ At(labels, entities[2].tokens[1]).prefix = "B"

\* the offsets of token t address a non-empty range of the text that is not only
\* whitespace
VisibleToken(t) ==
    /\ ReadOK(offset_mapping, t)
    /\ LET s == At(offset_mapping, t)[1]
           n == At(offset_mapping, t)[2]
       IN /\ 0 <= s
          /\ s < n
          /\ n <= Len(text)
          /\ Strip(Slice(text, s, n)) # <<>>

\* the range of token t lies inside a replacement span
Covered(t) ==
    \E m \in 1..Len(replacements) :
        /\ replacements[m].start <= At(offset_mapping, t)[1]
        /\ At(offset_mapping, t)[2] <= replacements[m].end

\* C20: once the replacement spans are collected, the character range of every
\* non-special token with a B- or I- label whose offsets address visible text lies
\* inside one of the spans, so no character of a labelled token stays in the
\* sanitized message.
C20_NoLabelledTokenLeaks ==
    pc \in {"rewrite", "done"} =>
        \A t \in 0..(ZipLen - 1) : (Labelled(t) /\ VisibleToken(t)) => Covered(t)

\* the trimmed text of a collected span
SpanText(rep) == Strip(Slice(text, rep.start, rep.end))

====
